---- MODULE Spec2Model ----
(***************************************************************************)
(* Gaussian-splat viewer: the sort/texture worker (workerCode.ts) and the  *)
(* WebGL render context that drives it (SplatRenderer in                   *)
(* SplatRendererGPU.ts), as two actors with FIFO mailboxes.                *)
(*                                                                         *)
(* Numbers.  TLC has 32-bit integers and no floats, so the model uses      *)
(* fixed point:                                                            *)
(*   - a view row holds the three integers DepthScale*viewProj[2],         *)
(*     DepthScale*viewProj[6], DepthScale*viewProj[10], or is NaNRow when  *)
(*     the matrix is NaN (a degenerate camera);                            *)
(*   - a position coordinate is an integer number of 1/PosUnit world units.*)
(* For such dyadic values the double arithmetic of the worker is exact, so *)
(* the scaled depth is the rational (V . P) / PosUnit.  Values that exceed *)
(* 31 bits are carried as pairs <<hi, lo>> = hi*Word + lo.                 *)
(***************************************************************************)
EXTENDS Integers, Sequences, FiniteSets, TLC

\* ---------------------------------------------------------------- numbers

\* the factor 4096 of the integer depth
DepthScale == 4096
\* 256 * 256: the number of buckets of the counting sort, and 2^16
Word == 256 * 256
\* resolution of a modelled position coordinate: 1/PosUnit world units
PosUnit == 2
\* longest generated scene of the worker specification
MaxN == 3

\* a view row: the finite row <<V2, V6, V10>>, or the NaN row
Row(a, b, c) == [nan |-> FALSE, r |-> <<a, b, c>>]
NaNRow == [nan |-> TRUE, r |-> <<0, 0, 0>>]

Abs(i) == IF i < 0 THEN -i ELSE i

\* V . P as a pair <<h, l>> with V . P = h * Word + l and 0 <= l < Word
DotPair(v, p) ==
  LET lo == v[1] * (p[1] % Word) + v[2] * (p[2] % Word) + v[3] * (p[3] % Word)
      hi == v[1] * (p[1] \div Word) + v[2] * (p[2] \div Word) + v[3] * (p[3] \div Word)
  IN  <<hi + (lo \div Word), lo % Word>>

\* x | 0 of JavaScript (ToInt32: truncate toward zero, then wrap modulo 2^32)
\* applied to the rational s / k, s given as a pair; NaN | 0 is 0
ToInt32(s, k) ==
  LET h    == s[1]
      rest == (h % k) * Word + s[2]
      fh   == h \div k                     \* floor(s / k) = fh * Word + fl
      fl   == rest \div k
      up   == (h < 0) /\ (rest % k # 0)     \* negative and inexact: floor + 1
      tl   == IF up THEN (fl + 1) % Word ELSE fl
      th   == IF up /\ fl + 1 = Word THEN fh + 1 ELSE fh
      ws   == ((th + Word \div 2) % Word) - Word \div 2
  IN  ws * Word + tl

\* Math.floor of the rational s / k, then wrapped modulo 2^32
FloorInt32(s, k) ==
  LET h    == s[1]
      rest == (h % k) * Word + s[2]
      fh   == h \div k
      fl   == rest \div k
      ws   == ((fh + Word \div 2) % Word) - Word \div 2
  IN  ws * Word + fl

\* the depth taken with Math.floor instead of | 0
IntDepthFloor(view, pos) ==
  IF view.nan THEN 0 ELSE FloorInt32(DotPair(view.r, pos), PosUnit)

\* ((v2*x + v6*y + v10*z) * 4096) | 0
IntDepth(view, pos) ==
  IF view.nan THEN 0 ELSE ToInt32(DotPair(view.r, pos), PosUnit)

\* floor(a * m / b) for 0 <= a <= b < 2^30, without leaving 31 bits:
\* MulDiv(a, m, b) = <<q, r>> with a * m = q * b + r and 0 <= r < b
RECURSIVE MulDiv(_, _, _)
MulDiv(a, m, b) ==
  IF m = 0 THEN <<0, 0>>
  ELSE LET half == MulDiv(a, m \div 2, b)
           r2   == 2 * half[2]
           q2   == 2 * half[1] + (IF r2 >= b THEN 1 ELSE 0)
           rr   == IF r2 >= b THEN r2 - b ELSE r2
       IN  IF m % 2 = 0 THEN <<q2, rr>>
           ELSE IF rr + a >= b THEN <<q2 + 1, rr + a - b>> ELSE <<q2, rr + a>>

\* the bucket with depthInv = 256*256 / (max - min)
BucketOfWide(d, minDepth, maxDepth) ==
  IF maxDepth = minDepth THEN 0
  ELSE MulDiv(d - minDepth, Word, maxDepth - minDepth)[1]

\* ((d - minDepth) * depthInv) | 0 with depthInv = (256*256 - 1) / (max - min);
\* for max = min depthInv is Infinity, 0 * Infinity is NaN and NaN | 0 is 0
BucketOf(d, minDepth, maxDepth) ==
  IF maxDepth = minDepth THEN 0
  ELSE MulDiv(d - minDepth, Word - 1, maxDepth - minDepth)[1]

\* ------------------------------------------------------------ the worker

\* A splat of the packed buffer: pos = the three position floats (f_buffer[8i..8i+2],
\* in 1/PosUnit), a = the opacity byte u_buffer[32i+27], c = the colour bytes
\* u_buffer[32i+24..26] (one of a few named colours).
Splat(x, y, z, a, c) == [pos |-> <<x, y, z>>, a |-> a, c |-> c]

\* u_buffer[32 * i + 27] >= alphaMin
Visible(splat, cut) == splat.a >= cut

\* visibleMap[0 .. visibleCount-1]: the 0-based indices that pass the cutoff
RECURSIVE VisibleMap(_, _, _, _)
VisibleMap(u, n, cut, i) ==
  IF i >= n THEN <<>>
  ELSE (IF Visible(u[i + 1], cut) THEN <<i>> ELSE <<>>) \o VisibleMap(u, n, cut, i + 1)

SeqMax(q) == CHOOSE m \in {q[k] : k \in 1..Len(q)} : \A k \in 1..Len(q) : q[k] <= m
SeqMin(q) == CHOOSE m \in {q[k] : k \in 1..Len(q)} : \A k \in 1..Len(q) : q[k] >= m

\* the scatter loop with the cursor's ++ left out
RECURSIVE ScatterNoAdvance(_, _, _, _, _)
ScatterNoAdvance(vi, bucket, vmap, starts, out) ==
  IF vi > Len(vmap) THEN out
  ELSE LET at == starts[bucket[vi]]
       IN  ScatterNoAdvance(vi + 1, bucket, vmap, starts,
                            IF at \in DOMAIN out THEN [out EXCEPT ![at] = vmap[vi]] ELSE out)

\* depthIndex[starts0[sizeList[vi]]++] = visibleMap[vi], for vi = 0 .. visibleCount-1;
\* a typed array ignores a write outside its length
RECURSIVE Scatter(_, _, _, _, _)
Scatter(vi, bucket, vmap, starts, out) ==
  IF vi > Len(vmap) THEN out
  ELSE LET b == bucket[vi]
           at == starts[b]
       IN  Scatter(vi + 1, bucket, vmap,
                   [starts EXCEPT ![b] = @ + 1],
                   IF at \in DOMAIN out THEN [out EXCEPT ![at] = vmap[vi]] ELSE out)

\* the index of depthIndex each pass of the scatter loop writes to
RECURSIVE ScatterAts(_, _, _)
ScatterAts(vi, bucket, starts) ==
  IF vi > Len(bucket) THEN <<>>
  ELSE <<starts[bucket[vi]]>>
         \o ScatterAts(vi + 1, bucket, [starts EXCEPT ![bucket[vi]] = @ + 1])

\* runSort, with the values of its locals: the depths, their extremes, the
\* bucket of each visible splat, the prefix sums and the writes of the scatter
SortTrace(scene, n, view, cut) ==
  LET vmap == VisibleMap(scene, n, cut, 0)
      m    == Len(vmap)
  IN  IF m = 0
      THEN [visibleCount |-> 0, sizeList |-> <<>>, minDepth |-> 0, maxDepth |-> 0,
            bucket |-> <<>>, starts0 |-> <<>>, ats |-> <<>>, depthIndex |-> <<>>]
      ELSE
      LET sizeList == [vi \in 1..m |-> IntDepth(view, scene[vmap[vi] + 1].pos)]
          maxDepth == SeqMax(sizeList)
          minDepth == SeqMin(sizeList)
          bucket   == [vi \in 1..m |-> BucketOf(sizeList[vi], minDepth, maxDepth)]
          used     == {bucket[vi] : vi \in 1..m}
          \* starts0[i] = starts0[i-1] + counts0[i-1]
          starts0  == [b \in used |-> Cardinality({vj \in 1..m : bucket[vj] < b})]
          out      == Scatter(1, bucket, vmap, starts0, [k \in 0..(m - 1) |-> 0])
      IN  [visibleCount |-> m, sizeList |-> sizeList, minDepth |-> minDepth,
           maxDepth |-> maxDepth, bucket |-> bucket, starts0 |-> starts0,
           ats |-> ScatterAts(1, bucket, starts0),
           depthIndex |-> [k \in 1..m |-> out[k - 1]]]

\* runSort(f_buffer, u_buffer, vertexCount, viewProj, alphaMin)
RunSort(scene, n, view, cut) ==
  [depthIndex |-> SortTrace(scene, n, view, cut).depthIndex,
   visibleCount |-> SortTrace(scene, n, view, cut).visibleCount]

\* var texwidth = 1024 * 2
TexWidth == 2048

CeilDiv(a, b) == (a + b - 1) \div b

\* generateTexture(buffer, vertexCount): the texture's size and, per splat i < vertexCount,
\* what texels 2i and 2i+1 carry (position and colour bytes; the covariance words are
\* not modelled here)
GenerateTexture(scene, n) ==
  [texwidth  |-> TexWidth,
   texheight |-> CeilDiv(2 * n, TexWidth),
   texdata   |-> [i \in 1..n |-> scene[i]]]

\* ------------------------------------------------------------- messages

NoScene == <<>>
NoRow   == Row(0, 0, 0)

\* the packed buffer posted without a transfer list (a structured clone)
LoadMsgCloned(scene) ==
  [kind |-> "load", buffer |-> scene, vertexCount |-> Len(scene), cut |-> 0,
   view |-> NoRow, transfer |-> FALSE]

\* render context -> worker
LoadMsg(scene) ==
  [kind |-> "load", buffer |-> scene, vertexCount |-> Len(scene), cut |-> 0,
   view |-> NoRow, transfer |-> TRUE]
CullMsg(a) ==
  [kind |-> "cull", buffer |-> NoScene, vertexCount |-> 0, cut |-> a,
   view |-> NoRow, transfer |-> FALSE]
SortMsg(v) ==
  [kind |-> "sort", buffer |-> NoScene, vertexCount |-> 0, cut |-> 0,
   view |-> v, transfer |-> FALSE]

\* worker -> render context
TexMsg(tex, transfer) ==
  [kind |-> "texdata", texheight |-> tex.texheight, texdata |-> tex.texdata,
   depthIndex |-> <<>>, vertexCount |-> 0, totalCount |-> 0, transfer |-> transfer]
IndexMsg(result, total, transfer) ==
  [kind |-> "indices", texheight |-> 0, texdata |-> <<>>,
   depthIndex |-> result.depthIndex, vertexCount |-> result.visibleCount,
   totalCount |-> total, transfer |-> transfer]

\* ---------------------------------------------------------------- state

\* longest mailbox the model explores, in either direction
MaxQueue == 2

VARIABLES
  \* the worker's globals (workerCode.ts 146-151)
  buffer,        \* [set, data]: null, or the packed buffer adopted by the last load
  vertexCount,
  lastProj,      \* << >> or << the view row of the last sort that passed the throttle >>
  alphaMin,
  \* the two mailboxes
  inbox,         \* render context -> worker, FIFO
  outbox,        \* worker -> render context, FIFO
  \* observation of the worker's last handler run and of what it has posted so far
  last,
  posted,
  \* the WebGL render context (class SplatRenderer)
  texture,       \* what the last texImage2D uploaded
  indexBuffer,   \* what the last bufferData uploaded
  glVertexCount, \* this.vertexCount, the instance count of the draw
  camera,        \* the orbit camera, as far as the depth row of viewProj depends on it
  pixel,         \* the canvas pixel at the splats' common centre after the last frame
  calls,         \* how many calls and input events the panel has made so far
  panel,         \* GaussianSplatPanel: its state, its canvas and the browser it runs in
  calc,          \* one call of a function of the pipeline: its name, arguments and result
  sorter,        \* a GPUSorter: its readback guard, readback buffer and promises
  rdr,           \* one renderer: its animation frames, its worker's ports, dispose()
  life           \* the panel's effects, the renderers they create, and the slider

workerVars == <<buffer, vertexCount, lastProj, alphaMin>>
renderVars == <<texture, indexBuffer, glVertexCount, camera, pixel>>
vars == <<buffer, vertexCount, lastProj, alphaMin, inbox, outbox, last, posted,
          texture, indexBuffer, glVertexCount, camera, pixel, calls, panel, calc,
          sorter, rdr, life>>

\* before the first message: nothing handled yet
NoMsg == [kind |-> "none", buffer |-> NoScene, vertexCount |-> 0, cut |-> 0,
          view |-> NoRow, transfer |-> FALSE]
Idle == [msg |-> NoMsg, threw |-> FALSE, logged |-> FALSE, uncaught |-> FALSE,
         ran |-> FALSE, nposted |-> 0, held |-> FALSE, prev |-> "none",
         afterThrow |-> FALSE, sorted |-> <<>>, prevSorted |-> <<>>]

WorkerInit ==
  /\ buffer = [set |-> FALSE, data |-> NoScene]
  /\ vertexCount = 0
  /\ lastProj = <<>>
  /\ alphaMin = 1
  /\ last = Idle
  /\ posted = [texdata |-> FALSE, indices |-> FALSE]

\* lastProj[2]*viewProj[2] + lastProj[6]*viewProj[6] + lastProj[10]*viewProj[10],
\* scaled by DepthScale^2; NaN when either row is NaN
DotRows(a, b) == a.r[1] * b.r[1] + a.r[2] * b.r[2] + a.r[3] * b.r[3]

\* Math.abs(dot - 1) < 0.01 (false for a NaN dot)
NearOne(a, b) ==
  /\ ~a.nan /\ ~b.nan
  /\ Abs(DotRows(a, b) - DepthScale * DepthScale) <= (DepthScale * DepthScale - 1) \div 100

\* a throttle test that only skips the very row stored
ThrottledSame(lp, view) == Len(lp) > 0 /\ lp[1] = view

\* the throttle test of the sort branch
Throttled(lp, view) == Len(lp) > 0 /\ NearOne(lp[1], view)

\* the handler without its try/catch
NoCatch(threw) == [logged |-> FALSE, uncaught |-> threw]

\* try { ... } catch (err) { console.error(...) }: what becomes of a throw in the handler
Catch(threw) == [logged |-> threw, uncaught |-> FALSE]

\* what one run of the handler records: the message e, whether it threw, whether
\* runSort was entered (ran), how many messages it posted (n), whether the worker held
\* a scene with N >= 1 when it began, and the history the properties speak of
Ran(e, threw, ran, n) ==
  [msg |-> e, threw |-> threw, logged |-> Catch(threw).logged,
   uncaught |-> Catch(threw).uncaught, ran |-> ran, nposted |-> n,
   held |-> (buffer.set /\ vertexCount > 0),
   prev |-> last.msg.kind,
   afterThrow |-> last.threw,
   sorted |-> IF ran THEN <<e.view>> ELSE last.sorted,
   prevSorted |-> last.sorted]

\* if (e.data.buffer) { ... }: adopt the buffer, then generate and post the texture.
\* generateTexture allocates the texture array and may throw (fail); an array of
\* length 0 is always allocated.
Load(e, fail) ==
  /\ buffer' = [set |-> TRUE, data |-> e.buffer]
  /\ vertexCount' = e.vertexCount
  /\ UNCHANGED <<lastProj, alphaMin>>
  /\ IF fail
     THEN /\ UNCHANGED <<outbox, posted>>
          /\ last' = Ran(e, TRUE, FALSE, 0)
     ELSE /\ outbox' = Append(outbox, TexMsg(GenerateTexture(e.buffer, e.vertexCount), TRUE))
          /\ posted' = [posted EXCEPT !.texdata = TRUE]
          /\ last' = Ran(e, FALSE, FALSE, 1)

\* the set-alpha branch without `lastProj = []`
CullKeepsThrottle(e) ==
  /\ alphaMin' = e.cut
  /\ UNCHANGED <<lastProj, buffer, vertexCount, outbox, posted>>
  /\ last' = Ran(e, FALSE, FALSE, 0)

\* the set-alpha branch storing one less than the message carries
CullBelow(e) ==
  /\ alphaMin' = e.cut - 1
  /\ lastProj' = <<>>
  /\ UNCHANGED <<buffer, vertexCount, outbox, posted>>
  /\ last' = Ran(e, FALSE, FALSE, 0)

\* if (e.data.cullParams !== undefined) { alphaMin = ...; lastProj = []; }
Cull(e) ==
  /\ alphaMin' = e.cut
  /\ lastProj' = <<>>
  /\ UNCHANGED <<buffer, vertexCount, outbox, posted>>
  /\ last' = Ran(e, FALSE, FALSE, 0)

\* if (e.data.view) { ... }: early return, throttle, then runSort and post.
\* runSort allocates its arrays and may throw (fail).
Sort(e, fail) ==
  IF ~buffer.set \/ vertexCount = 0
  THEN /\ UNCHANGED <<workerVars, outbox, posted>>
       /\ last' = Ran(e, FALSE, FALSE, 0)
  ELSE IF Throttled(lastProj, e.view)
  THEN /\ UNCHANGED <<workerVars, outbox, posted>>
       /\ last' = Ran(e, FALSE, FALSE, 0)
  ELSE /\ lastProj' = <<e.view>>
       /\ UNCHANGED <<buffer, vertexCount, alphaMin>>
       /\ IF fail
          THEN /\ UNCHANGED <<outbox, posted>>
               /\ last' = Ran(e, TRUE, TRUE, 0)
          ELSE /\ outbox' = Append(outbox,
                      IndexMsg(RunSort(buffer.data, vertexCount, e.view, alphaMin),
                               vertexCount, TRUE))
               /\ posted' = [posted EXCEPT !.indices = TRUE]
               /\ last' = Ran(e, FALSE, TRUE, 1)

\* self.onmessage
OnMessage ==
  /\ inbox # <<>>
  /\ Len(outbox) < MaxQueue
  /\ inbox' = Tail(inbox)
  /\ LET e == Head(inbox) IN
     \/ e.kind = "load" /\ \E fail \in BOOLEAN : (fail => e.vertexCount > 0) /\ Load(e, fail)
     \/ e.kind = "cull" /\ Cull(e)
     \/ e.kind = "sort" /\ \E fail \in BOOLEAN : Sort(e, fail)
  /\ UNCHANGED <<renderVars, calls, panel, calc, sorter, rdr, life>>

\* cutoffs the panel's slider (min 1, max 255, integer steps) is moved to
Alphas == {1, 101, 255}

\* ------------------------------------------------- the render context

\* forward directions the orbit camera can take (each row is DepthScale * a unit
\* vector, the factor zfar / (zfar - znear) = 1.00001 of the projection rounded away)
InitDir == Row(-2896, -2896, 0)
\* Row(0, 183, 4092) is at cosine 0.999 to Row(0, 0, DepthScale);
\* Row(-2893, -2893, 183) is at cosine 0.999 and Row(-2606, -2606, 1785) at
\* cosine 0.9 to InitDir
Dirs == { InitDir, Row(0, 0, DepthScale), Row(0, 0, -DepthScale), Row(0, 183, 4092),
          Row(-2893, -2893, 183), Row(-2606, -2606, 1785) }

\* viewProj[2], [6], [10] of drawFrame: lookAt divides by |target - eye|, which is 0
\* for radius 0 and NaN for a NaN target, and then every entry is NaN
CameraRow(cam) == IF cam.radiusZero \/ cam.targetNaN THEN NaNRow ELSE cam.dir

\* autoFitCamera: target = the centroid (0/0 for an empty scene),
\* radius = 1.5 * the largest distance to it (0 when every splat is at the centroid)
AutoFit(cam, scene) ==
  [cam EXCEPT !.targetNaN = (Len(scene) = 0),
              !.radiusZero = \A i, j \in 1..Len(scene) : scene[i].pos = scene[j].pos]

ColourBytes(c) ==
  CASE c = "r" -> <<255, 0, 0>>
    [] c = "g" -> <<0, 255, 0>>
    [] c = "b" -> <<0, 0, 255>>

Zero4 == <<0, 0, 0, 0>>

\* texelFetch of splat `index`: its colour bytes, zeros outside the uploaded image
Fetch(tex, index) ==
  IF index + 1 \in 1..Len(tex.texdata)
  THEN LET sp == tex.texdata[index + 1]
       IN  <<ColourBytes(sp.c)[1], ColourBytes(sp.c)[2], ColourBytes(sp.c)[3], sp.a>>
  ELSE Zero4

RoundDiv(a, b) == (2 * a + b) \div (2 * b)

\* the fragment at the quad centre: B = exp(0) * vColor.a, fragColor = (B * rgb, B),
\* as bytes (the depth-fog factor is 1 for a splat in front of the camera)
Fragment(rgba) ==
  <<RoundDiv(rgba[4] * rgba[1], 255), RoundDiv(rgba[4] * rgba[2], 255),
    RoundDiv(rgba[4] * rgba[3], 255), rgba[4]>>

\* back-to-front "over" blending of premultiplied colour
BlendFuncOver == [src |-> "ONE", dst |-> "ONE_MINUS_SRC_ALPHA"]

\* gl.blendFuncSeparate(ONE_MINUS_DST_ALPHA, ONE, ONE_MINUS_DST_ALPHA, ONE)
BlendFunc == [src |-> "ONE_MINUS_DST_ALPHA", dst |-> "ONE"]

BlendFactor(f, src, dst) ==
  CASE f = "ONE" -> 255
    [] f = "ZERO" -> 0
    [] f = "SRC_ALPHA" -> src[4]
    [] f = "ONE_MINUS_SRC_ALPHA" -> 255 - src[4]
    [] f = "ONE_MINUS_DST_ALPHA" -> 255 - dst[4]

Min(a, b) == IF a < b THEN a ELSE b

\* FUNC_ADD on an 8-bit target: src * srcFactor + dst * dstFactor, clamped
Blend(src, dst) ==
  [k \in 1..4 |->
     Min(255, RoundDiv(src[k] * BlendFactor(BlendFunc.src, src, dst), 255)
            + RoundDiv(dst[k] * BlendFactor(BlendFunc.dst, src, dst), 255))]

\* gl.clear, then drawArraysInstanced over the first `count` indices: the pixel
\* after the clear and after each instance
RECURSIVE DrawTrace(_, _, _, _)
DrawTrace(tex, idx, count, k) ==
  IF k = 0 THEN <<Zero4>>
  ELSE LET before == DrawTrace(tex, idx, count, k - 1)
           index  == IF k <= Len(idx) THEN idx[k] ELSE 0
       IN  Append(before, Blend(Fragment(Fetch(tex, index)), before[Len(before)]))

\* the length of the sessions explored
MaxCalls == 4

Call == calls < MaxCalls /\ calls' = calls + 1

\* no function call under examination
NoCalc == [fn |-> "none"]

\* no GPUSorter, no renderer loop and no panel lifecycle under examination
NoSorter == [on |-> FALSE]
NoRdr == [on |-> FALSE]
NoLife == [on |-> FALSE]
Elsewhere == sorter = NoSorter /\ rdr = NoRdr /\ life = NoLife

\* a browser: which of the things renderer creation asks for it provides
Env(gpu, adapter, device, gpuCtx, gpuInit, webgl2, link) ==
  [gpu |-> gpu, adapter |-> adapter, device |-> device, gpuCtx |-> gpuCtx,
   gpuInit |-> gpuInit, webgl2 |-> webgl2, link |-> link]

\* the panel once createRenderer has given it the WebGL renderer and the loop runs
PanelWebGL ==
  [pc |-> "running", status |-> "splats", backend |-> "webgl", renderer |-> "webgl",
   made |-> "webgl", loop |-> TRUE, initing |-> FALSE, canvasCtx |-> "webgl2",
   scene |-> <<>>,
   env |-> Env(FALSE, FALSE, FALSE, FALSE, FALSE, TRUE, TRUE)]

RenderInit ==
  /\ calls = 0
  /\ texture = [texheight |-> 0, texdata |-> <<>>]
  /\ indexBuffer = <<>>
  /\ glVertexCount = 0
  /\ camera = [dir |-> InitDir, radiusZero |-> FALSE, targetNaN |-> FALSE]
  /\ pixel = Zero4

\* setData(msg): pack, post the buffer with a transfer list, fit the camera
SetData(scene) ==
  /\ Call
  /\ Len(inbox) < MaxQueue
  /\ inbox' = Append(inbox, LoadMsg(scene))
  /\ camera' = AutoFit(camera, scene)
  /\ UNCHANGED <<workerVars, outbox, last, posted, texture, indexBuffer, glVertexCount, pixel, panel, calc,
                 sorter, rdr, life>>

\* setCullParams(params)
SetCullParams(a) ==
  /\ Call
  /\ Len(inbox) < MaxQueue
  /\ inbox' = Append(inbox, CullMsg(a))
  /\ UNCHANGED <<workerVars, outbox, last, posted, renderVars, panel, calc,
                 sorter, rdr, life>>

\* drawFrame(): post the view, clear, draw this.vertexCount instances.
\* With a NaN view every vertex position is NaN and no fragment is produced.
Frame ==
  /\ Len(inbox) < MaxQueue
  /\ inbox' = Append(inbox, SortMsg(CameraRow(camera)))
  /\ pixel' = IF glVertexCount > 0 /\ ~CameraRow(camera).nan
              THEN LET t == DrawTrace(texture, indexBuffer, glVertexCount, glVertexCount)
                   IN  t[Len(t)]
              ELSE Zero4
  /\ UNCHANGED <<workerVars, outbox, last, posted, texture, indexBuffer, glVertexCount, camera, panel, calc,
                 sorter, rdr, life>>

\* a frame drawn by the panel's session
DrawFrame == Call /\ Frame

\* this.worker.onmessage: upload the texture, or the index buffer and its count
OnWorkerMessage ==
  /\ outbox # <<>>
  /\ outbox' = Tail(outbox)
  /\ LET m == Head(outbox) IN
     IF m.kind = "texdata"
     THEN /\ texture' = [texheight |-> m.texheight, texdata |-> m.texdata]
          /\ UNCHANGED <<indexBuffer, glVertexCount>>
     ELSE /\ indexBuffer' = m.depthIndex
          /\ glVertexCount' = m.vertexCount
          /\ UNCHANGED texture
  /\ UNCHANGED <<workerVars, inbox, last, posted, camera, pixel, calls, panel, calc,
                 sorter, rdr, life>>

\* onMouseMove while dragging: theta and phi change
MouseDrag(d) ==
  /\ Call
  /\ d # camera.dir
  /\ camera' = [camera EXCEPT !.dir = d]
  /\ UNCHANGED <<workerVars, inbox, outbox, last, posted, texture, indexBuffer, glVertexCount, pixel, panel, calc,
                 sorter, rdr, life>>

\* onWheel: radius = max(0.1, min(500, radius * (1 + deltaY * 0.001)))
Wheel ==
  /\ Call
  /\ camera' = [camera EXCEPT !.radiusZero = FALSE]
  /\ UNCHANGED <<workerVars, inbox, outbox, last, posted, texture, indexBuffer, glVertexCount, pixel, panel, calc,
                 sorter, rdr, life>>

\* scenes handed to setData: none (a topic message with count 0), the single splat
\* at the origin, two opaque splats one behind the other, and a scene with a
\* translucent splat and a far outlier
Scenes ==
  { <<>>,
    <<Splat(0, 0, 0, 255, "r")>>,
    <<Splat(0, 0, 4, 255, "b"), Splat(0, 0, 2, 255, "r")>>,
    <<Splat(0, 1, -1, 100, "g"), Splat(0, 0, 2, 255, "b"),
      Splat(0, 0, PosUnit * (Word * 16 - 1), 255, "r")>> }

Init ==
  /\ WorkerInit
  /\ RenderInit
  /\ panel = PanelWebGL
  /\ calc = NoCalc
  /\ Elsewhere
  /\ inbox = <<>>
  /\ outbox = <<>>

Next ==
  \/ \E scene \in Scenes : SetData(scene)
  \/ \E a \in Alphas : SetCullParams(a)
  \/ DrawFrame
  \/ OnWorkerMessage
  \/ \E d \in Dirs : MouseDrag(d)
  \/ Wheel
  \/ OnMessage

Spec == Init /\ [][Next]_vars

\* ------------------------------------------- the worker on generated input

Kinds ==
  { Splat(0, 0, 2, 255, "r"), Splat(0, 0, 4, 255, "b"), Splat(0, 1, -1, 100, "g"),
    Splat(0, 0, PosUnit * (Word * 16 - 1), 255, "r") }

Views == { Row(0, 0, DepthScale), Row(0, 0, -DepthScale), Row(0, 183, 4092), NaNRow }

RECURSIVE SeqsUpTo(_, _)
\* the cutoffs of the generated set-alpha messages
Cuts == {1, 101}

SeqsUpTo(S, n) ==
  IF n = 0 THEN {<<>>}
  ELSE LET shorter == SeqsUpTo(S, n - 1)
       IN  shorter \cup {Append(q, x) : q \in {t \in shorter : Len(t) = n - 1}, x \in S}

\* a worker that is sent one scene, one cutoff and two sort requests
WorkerSpecInit ==
  /\ WorkerInit
  /\ RenderInit
  /\ panel = PanelWebGL
  /\ calc = NoCalc
  /\ Elsewhere
  /\ outbox = <<>>
  /\ \E scene \in SeqsUpTo(Kinds, MaxN), a \in Cuts, v \in Views, w \in Views :
       inbox = <<LoadMsg(scene), CullMsg(a), SortMsg(v), SortMsg(w)>>

WorkerSpecNext == OnMessage \/ OnWorkerMessage

WorkerSpec == WorkerSpecInit /\ [][WorkerSpecNext]_vars

\* ------------------------------------------------------------ the panel

\* canvas.getContext(kind): a canvas that already has a context of another kind
\* gives null
GetContext(ctx, kind, supported) == supported /\ ctx \in {"none", kind}

\* await SplatRendererGPU.create(canvas): null without navigator.gpu or an adapter;
\* requestDevice may reject; the constructor throws without a webgpu context or when
\* its pipeline or worker set-up throws. ctx is the canvas's context afterwards.
GpuCreate(env, ctx) ==
  IF ~env.gpu \/ ~env.adapter THEN [out |-> "null", ctx |-> ctx]
  ELSE IF ~env.device THEN [out |-> "throw", ctx |-> ctx]
  ELSE IF ~GetContext(ctx, "webgpu", env.gpuCtx) THEN [out |-> "throw", ctx |-> ctx]
  ELSE IF ~env.gpuInit THEN [out |-> "throw", ctx |-> "webgpu"]
  ELSE [out |-> "renderer", ctx |-> "webgpu"]

\* new SplatRenderer(canvas): throws "WebGL2 not supported" without a webgl2 context,
\* and from initGL when a shader fails to compile or the program to link
GlCreate(env, ctx) ==
  IF ~GetContext(ctx, "webgl2", env.webgl2) THEN [out |-> "throw", ctx |-> ctx]
  ELSE IF ~env.link THEN [out |-> "throw", ctx |-> "webgl2"]
  ELSE [out |-> "renderer", ctx |-> "webgl2"]

\* createRenderer with the catch around the WebGPU attempt left out
AfterGpuNoCatch(out) ==
  IF out = "renderer" THEN "made" ELSE IF out = "throw" THEN "rejected" ELSE "webgl"

\* createRenderer's try { ... } catch: a WebGPU renderer is returned, null or a throw
\* goes on to new SplatRenderer(canvas)
AfterGpu(out) == IF out = "renderer" THEN "made" ELSE "webgl"

\* handleFile (parsePly rejects a file without vertices) and the topic branch of
\* context.onRender (decodeJsonMsg takes any count): setSplatData and setStatus
SetSplatData(scene, topic) ==
  /\ panel.pc = "idle"
  /\ IF ~topic /\ Len(scene) = 0
     THEN panel' = [panel EXCEPT !.status = "error"]
     ELSE panel' = [panel EXCEPT !.status = "splats", !.scene = scene, !.pc = "effect"]
  /\ UNCHANGED <<workerVars, inbox, outbox, last, posted, renderVars, calls, calc,
                 sorter, rdr, life>>

\* the [splatData] effect: init() up to its await
InitEffect ==
  /\ panel.pc = "effect"
  /\ panel.renderer = "none" /\ ~panel.initing
  /\ panel' = [panel EXCEPT !.initing = TRUE, !.pc = "gpu"]
  /\ UNCHANGED <<workerVars, inbox, outbox, last, posted, renderVars, calls, calc,
                 sorter, rdr, life>>

\* createRenderer: the WebGPU attempt
CreateGpu ==
  /\ panel.pc = "gpu"
  /\ LET r == GpuCreate(panel.env, panel.canvasCtx) IN
       panel' = [panel EXCEPT !.canvasCtx = r.ctx,
                              !.pc = AfterGpu(r.out),
                              !.made = IF r.out = "renderer" THEN "webgpu" ELSE "none"]
  /\ UNCHANGED <<workerVars, inbox, outbox, last, posted, renderVars, calls, calc,
                 sorter, rdr, life>>

\* createRenderer: return { renderer: new SplatRenderer(canvas), backend: "webgl" };
\* a throw rejects the promise of init(), which nobody awaits (void init())
CreateGl ==
  /\ panel.pc = "webgl"
  /\ LET r == GlCreate(panel.env, panel.canvasCtx) IN
       panel' = [panel EXCEPT !.canvasCtx = r.ctx,
                              !.pc = IF r.out = "renderer" THEN "made" ELSE "rejected",
                              !.made = IF r.out = "renderer" THEN "webgl" ELSE "none"]
  /\ UNCHANGED <<workerVars, inbox, outbox, last, posted, renderVars, calls, calc,
                 sorter, rdr, life>>

\* init() after its await: rendererRef.current = renderer; setBackend(be);
\* renderer.setData(splatData); renderer.startLoop(); initingRef.current = false
Finish ==
  /\ panel.pc = "made"
  /\ panel' = [panel EXCEPT !.renderer = panel.made, !.backend = panel.made,
                            !.loop = TRUE, !.initing = FALSE, !.pc = "running"]
  /\ inbox' = Append(inbox, LoadMsg(panel.scene))
  /\ camera' = AutoFit(camera, panel.scene)
  /\ UNCHANGED <<workerVars, outbox, last, posted, texture, indexBuffer, glVertexCount,
                 pixel, calls, calc, sorter, rdr, life>>

PanelInit ==
  \E gpu, adapter, device, gpuCtx, gpuInit, webgl2, link \in BOOLEAN :
    panel = [pc |-> "idle", status |-> "prompt", backend |-> "initializing",
             renderer |-> "none", made |-> "none", loop |-> FALSE, initing |-> FALSE,
             canvasCtx |-> "none", scene |-> <<>>,
             env |-> Env(gpu, adapter, device, gpuCtx, gpuInit, webgl2, link)]

PanelSpecInit ==
  /\ WorkerInit
  /\ RenderInit
  /\ inbox = <<>>
  /\ outbox = <<>>
  /\ PanelInit
  /\ calc = NoCalc
  /\ Elsewhere

PanelSpecNext ==
  \/ \E scene \in Scenes, topic \in BOOLEAN : SetSplatData(scene, topic)
  \/ InitEffect
  \/ CreateGpu
  \/ CreateGl
  \/ Finish

PanelSpec == PanelSpecInit /\ [][PanelSpecNext]_vars

\* ---------------------------------------------------------------------------
\* The functions of the pipeline, each called once on a generated input
\* ---------------------------------------------------------------------------

\* a & b on non-negative integers
RECURSIVE BitAnd(_, _)
BitAnd(a, b) ==
  IF a = 0 \/ b = 0 THEN 0
  ELSE (a % 2) * (b % 2) + 2 * BitAnd(a \div 2, b \div 2)

\* a | b on non-negative integers
RECURSIVE BitOr(_, _)
BitOr(a, b) ==
  IF a = 0 THEN b
  ELSE IF b = 0 THEN a
  ELSE (IF a % 2 = 1 \/ b % 2 = 1 THEN 1 ELSE 0) + 2 * BitOr(a \div 2, b \div 2)

\* 2^k
RECURSIVE Pow2(_)
Pow2(k) == IF k = 0 THEN 1 ELSE 2 * Pow2(k - 1)

\* a 32-bit word of the texture, named by what was stored in it: component k of
\* the position of a splat, its three packed covariance words, or its RGBA bytes
TexWord(tag, splat, k) == [tag |-> tag, splat |-> splat, k |-> k]
ZeroWord == TexWord("zero", 0, 0)

\* the stores of iteration i of generateTexture's loop, by word index of texdata:
\* texdata_f[8i+0..2], the bytes texdata_c[4(8i+7)+0..3], texdata[8i+4..6].
\* This variant stores the colour bytes in word 3 of the first texel instead.
TexStoresColourFirst(i) ==
  {[at |-> 8 * i + k, word |-> TexWord("pos", i, k)] : k \in 0..2}
    \cup {[at |-> (4 * (8 * i + 3) + b) \div 4, word |-> TexWord("rgba", i, 0)] : b \in 0..3}
    \cup {[at |-> 8 * i + 4 + k, word |-> TexWord("cov", i, k)] : k \in 0..2}

\* the stores of iteration i of generateTexture's loop
TexStores(i) ==
  {[at |-> 8 * i + k, word |-> TexWord("pos", i, k)] : k \in 0..2}
    \cup {[at |-> (4 * (8 * i + 7) + b) \div 4, word |-> TexWord("rgba", i, 0)] : b \in 0..3}
    \cup {[at |-> 8 * i + 4 + k, word |-> TexWord("cov", i, k)] : k \in 0..2}

\* word w of the zero-initialised texdata after the loop ran for n splats
TexDataWord(n, w) ==
  LET writers == {i \in 0..(n - 1) : \E s \in TexStores(i) : s.at = w}
      final   == CHOOSE i \in writers : \A h \in writers : h <= i
  IN  IF writers = {} THEN ZeroWord
      ELSE (CHOOSE s \in TexStores(final) : s.at = w).word

\* the size of the texture generateTexture allocates for n splats
TexSize(n) == [texwidth |-> 1024 * 2, texheight |-> CeilDiv(2 * n, 1024 * 2)]

\* the texel coordinate a shader computes for a splat index:
\* ((index & 0x3ff) << 1) | k, index >> 10; this variant masks with 0x7ff
ShaderCoordWide(index, k) ==
  [x |-> BitOr(BitAnd(index, 2047) * 2, k), y |-> index \div Pow2(10)]

\* the texel coordinate the vertex shaders and the depth shader compute (the
\* masked index is below 2^10, so the shift cannot leave 32 bits)
ShaderCoord(index, k) ==
  [x |-> BitOr(BitAnd(index, 1023) * 2, k), y |-> index \div Pow2(10)]

\* texelFetch / textureLoad at a coordinate of the texture for n splats
TexelFetch(n, coord) ==
  IF coord.x < TexSize(n).texwidth /\ coord.y < TexSize(n).texheight
  THEN [inside |-> TRUE,
        words |-> [k \in 0..3 |-> TexDataWord(n, 4 * (coord.y * TexSize(n).texwidth + coord.x) + k)]]
  ELSE [inside |-> FALSE, words |-> [k \in 0..3 |-> ZeroWord]]

\* the largest splat count a texture is generated for here
MaxTexN == 1026

\* splat counts around the end of a texture row
TexCounts == {1, 2, 1023, 1024, 1025, MaxTexN}

\* the arguments of a call that has not run yet
Args(fn, args) == [fn |-> fn, done |-> FALSE, args |-> args]

\* generateTexture for n splats, with a splat i to fetch and a texel j past
\* the last splat to read
TexArgs ==
  {Args("generateTexture", [n |-> n, i |-> i, j |-> j]) :
     n \in TexCounts, i \in {0, 1, 511, 1022, 1023, 1024, MaxTexN - 1},
     j \in {2, 3, 4, 2047, 2048, 2049, 2052, 2 * MaxTexN, 4095}}

\* generateTexture for n splats, then what the shaders fetch for splat i and
\* what texel j past the last splat holds
CallGenerateTexture ==
  /\ calc.fn = "generateTexture" /\ ~calc.done
  /\ LET n == calc.args.n
         i == calc.args.i
         j == calc.args.j
     IN  calc' = [fn |-> "generateTexture", done |-> TRUE, n |-> n, i |-> i, j |-> j,
                  size |-> TexSize(n),
                  coord0 |-> ShaderCoord(i, 0), coord1 |-> ShaderCoord(i, 1),
                  fetch0 |-> TexelFetch(n, ShaderCoord(i, 0)),
                  fetch1 |-> TexelFetch(n, ShaderCoord(i, 1)),
                  past |-> TexelFetch(n, [x |-> j % TexSize(n).texwidth,
                                          y |-> j \div TexSize(n).texwidth])]
  /\ UNCHANGED <<workerVars, inbox, outbox, last, posted, renderVars, calls, panel,
                 sorter, rdr, life>>

\* a quaternion component v in [-1, 1] is q / QuatUnit for an integer q
QuatUnit == 256

\* Math.round(a / b) for a >= 0, b > 0: halves go up
MathRound(a, b) == (2 * a + b) \div (2 * b)

\* a store of a number into a Uint8Array element keeps it modulo 2^8
ToUint8(x) == x % 256

\* Math.min(1, Math.max(-1, v)) in units of 1 / QuatUnit
ClampUnit(q) == IF q < -QuatUnit THEN -QuatUnit ELSE IF q > QuatUnit THEN QuatUnit ELSE q

\* the byte setData stores for a quaternion component:
\* u[32 * i + 28 + k] = Math.round(clamp(v) * 128 + 128)
QuatByte(q) == ToUint8(MathRound(ClampUnit(q) * 128 + 128 * QuatUnit, QuatUnit))

\* the worker's decode (b - 128) / 128, in units of 1 / 128
QuatDecode(b) == b - 128

QuatArgs == {Args("quat", [q |-> q]) : q \in (-QuatUnit)..QuatUnit}

\* setData packs a quaternion component, generateTexture decodes it
CallPackQuat ==
  /\ calc.fn = "quat" /\ ~calc.done
  /\ calc' = [fn |-> "quat", done |-> TRUE, q |-> calc.args.q,
              byte |-> QuatByte(calc.args.q),
              decoded |-> QuatDecode(QuatByte(calc.args.q))]
  /\ UNCHANGED <<workerVars, inbox, outbox, last, posted, renderVars, calls, panel,
                 sorter, rdr, life>>

\* x >> k for 0 <= x < 2^24 and a shift count k in 0..31
Shr(x, k) == IF k >= 24 THEN 0 ELSE x \div Pow2(k)

\* floatToHalf on the float32 bit pattern hi * 2^16 + lo
FloatToHalf(hi, lo) ==
  LET s     == hi \div Pow2(15)
      e     == (hi \div Pow2(7)) % 256
      frac  == (hi % Pow2(7)) * Word + lo
      \* a shift count is taken modulo 32
      small == Shr(frac + Pow2(23), (113 - e) % 32)
      carry == BitAnd(small, Pow2(24)) # 0
      ne    == IF e = 0 THEN 0
               ELSE IF e < 113 THEN (IF carry THEN 1 ELSE 0)
               ELSE IF e < 142 THEN e - 112
               ELSE 31
      fr    == IF e = 0 THEN frac
               ELSE IF e < 113 THEN (IF carry THEN 0 ELSE small)
               ELSE IF e < 142 THEN frac
               ELSE 0
  IN  BitOr(BitOr(s * Pow2(15), ne * Pow2(10)), fr \div Pow2(13))

\* float32 bit patterns: every sign and exponent, mantissas at the ends of the
\* ten bits a half keeps and of the thirteen it drops
FloatArgs ==
  {Args("floatToHalf", [hi |-> s * Pow2(15) + e * Pow2(7) + m, lo |-> lo]) :
     s \in {0, 1}, e \in 0..255, m \in {0, 1, 64, 127}, lo \in {0, 8191, 8192, Word - 1}}

\* floatToHalf of one bit pattern
CallFloatToHalf ==
  /\ calc.fn = "floatToHalf" /\ ~calc.done
  /\ calc' = [fn |-> "floatToHalf", done |-> TRUE,
              s |-> calc.args.hi \div Pow2(15),
              e |-> (calc.args.hi \div Pow2(7)) % 256,
              frac |-> (calc.args.hi % Pow2(7)) * Word + calc.args.lo,
              half |-> FloatToHalf(calc.args.hi, calc.args.lo)]
  /\ UNCHANGED <<workerVars, inbox, outbox, last, posted, renderVars, calls, panel,
                 sorter, rdr, life>>

\* a sort key of the depth pass, ordered as the 32-bit key is: <<0, 0, 0>> is
\* the flipped bits of a negative NaN, <<1, h, l>> the flipped bits of the finite
\* depth h * Word + l (floatFlip keeps the order of finite floats), and
\* <<2, 0, 0>> is 0xFFFFFFFF
FloatFlip(d) == <<1, d[1], d[2]>>
CulledKey == <<2, 0, 0>>
NaNKeys == {<<0, 0, 0>>, CulledKey}

\* a < b on keys
KeyLess(a, b) ==
  \/ a[1] < b[1]
  \/ a[1] = b[1] /\ a[2] < b[2]
  \/ a[1] = b[1] /\ a[2] = b[2] /\ a[3] < b[3]

\* CALC_DEPTHS_WGSL main: keys[i] and the count of the splats not culled.
\* viewProj2.w is the same addend for every splat and is left out of the depth;
\* the bits of a NaN depth are not fixed by WGSL and are given by nanKey.
CalcDepths(scene, n, view, cut, nanKey) ==
  [keys |-> [i \in 0..(n - 1) |->
               IF scene[i + 1].a < cut THEN CulledKey
               ELSE IF view.nan THEN nanKey
               ELSE FloatFlip(DotPair(view.r, scene[i + 1].pos))],
   instanceCount |-> Cardinality({i \in 0..(n - 1) : ~(scene[i + 1].a < cut)})]

\* RadixSortKernel.dispatch: values (initially values[i] = i) reordered by
\* ascending key, equal keys keeping their order
RadixSort(keys, n) ==
  LET before(i) == {j \in 0..(n - 1) : KeyLess(keys[j], keys[i]) \/ (keys[j] = keys[i] /\ j < i)}
  IN  [k \in 1..n |-> CHOOSE i \in 0..(n - 1) : Cardinality(before(i)) = k - 1]

\* GPUSorter.sort: depth pass, then radix sort; the draw is indirect with the
\* instance count the depth pass counted
GpuSort(scene, n, view, cut, nanKey) ==
  LET pass == CalcDepths(scene, n, view, cut, nanKey)
  IN  [values |-> RadixSort(pass.keys, n), instanceCount |-> pass.instanceCount]

SortArgs ==
  {Args("sort", [scene |-> scene, view |-> v, cut |-> a]) :
     scene \in SeqsUpTo(Kinds, MaxN) \ {<<>>}, v \in Views, a \in Cuts}

\* the same scene, view and cutoff sorted by the worker and by the GPU sorter
CallSorts ==
  /\ calc.fn = "sort" /\ ~calc.done
  /\ \E nanKey \in NaNKeys :
       calc' = [fn |-> "sort", done |-> TRUE, scene |-> calc.args.scene,
                view |-> calc.args.view, cut |-> calc.args.cut,
                cpu |-> RunSort(calc.args.scene, Len(calc.args.scene), calc.args.view,
                                calc.args.cut),
                gpu |-> GpuSort(calc.args.scene, Len(calc.args.scene), calc.args.view,
                                calc.args.cut, nanKey),
                trace |-> SortTrace(calc.args.scene, Len(calc.args.scene), calc.args.view,
                                    calc.args.cut)]
  /\ UNCHANGED <<workerVars, inbox, outbox, last, posted, renderVars, calls, panel,
                 sorter, rdr, life>>

\* positions whose scaled depth is whole or fractional, positive or negative,
\* inside or outside 32 bits
DepthPositions ==
  {k.pos : k \in Kinds} \cup {<<0, -1, 1>>, <<0, 0, -3>>, <<1, 1, 1>>,
                               <<0, 0, -PosUnit * (Word * 16 - 1)>>, <<0, 0, PosUnit * Word * 8>>}

DepthArgs == {Args("depth", [view |-> v, pos |-> p]) : v \in Views \cup Dirs, p \in DepthPositions}

\* the depth line of runSort for one splat
CallIntDepth ==
  /\ calc.fn = "depth" /\ ~calc.done
  /\ calc' = [fn |-> "depth", done |-> TRUE, view |-> calc.args.view, pos |-> calc.args.pos,
              d |-> IntDepth(calc.args.view, calc.args.pos)]
  /\ UNCHANGED <<workerVars, inbox, outbox, last, posted, renderVars, calls, panel,
                 sorter, rdr, life>>

CalcSpecInit ==
  /\ WorkerInit
  /\ RenderInit
  /\ inbox = <<>>
  /\ outbox = <<>>
  /\ panel = PanelWebGL
  /\ Elsewhere
  /\ calc \in {c \in TexArgs : c.args.i < c.args.n /\ 2 * c.args.n <= c.args.j}
              \cup QuatArgs \cup FloatArgs \cup SortArgs \cup DepthArgs

CalcSpecNext ==
  \/ CallGenerateTexture
  \/ CallPackQuat
  \/ CallFloatToHalf
  \/ CallSorts
  \/ CallIntDepth

CalcSpec == CalcSpecInit /\ [][CalcSpecNext]_vars

\* ---------------------------------------------------------- properties

\* this step is the worker handling a message of kind k
Handles(k) == inbox # <<>> /\ Head(inbox).kind = k /\ inbox' = Tail(inbox)

\* this step posts one message from the worker; Newest is that message
Emits == Len(outbox') = Len(outbox) + 1
Newest == outbox'[Len(outbox')]

\* this step is the render context posting a message; Sent is that message
Sends == Len(inbox') = Len(inbox) + 1
Sent == inbox'[Len(inbox')]

\* the 0-based indices of the splats whose opacity byte is at least cut
VisibleSet(scene, n, cut) == {i \in 0..(n - 1) : scene[i + 1].a >= cut}

\* q lists every element of S once and nothing else
IsPermutationOf(q, S) ==
  /\ Len(q) = Cardinality(S)
  /\ {q[k] : k \in 1..Len(q)} = S

\* C1: every indices message a sort emits carries a permutation of exactly the
\* indices i < N with opacity byte >= the current cutoff, its vertexCount
\* (visibleCount) is the array's length and its totalCount is N.
C1_SortEmitsPermutation ==
  [][Handles("sort") /\ Emits =>
       /\ Newest.kind = "indices"
       /\ vertexCount = Len(buffer.data) /\ vertexCount >= 1
       /\ IsPermutationOf(Newest.depthIndex, VisibleSet(buffer.data, vertexCount, alphaMin))
       /\ Newest.vertexCount = Len(Newest.depthIndex)
       /\ Newest.totalCount = vertexCount]_vars

\* an emitted index array that leaves a culled splat out and is not in index order
C1_Witness ==
  \E k \in 1..Len(outbox) :
    /\ outbox[k].kind = "indices"
    /\ outbox[k].vertexCount = 2
    /\ outbox[k].totalCount = 3
    /\ outbox[k].depthIndex[1] > outbox[k].depthIndex[2]

\* the depth viewProj[2]*x + viewProj[6]*y + viewProj[10]*z itself, in 1/16 of a
\* world unit (no 32-bit wrap happens at this scale)
Depth16(view, pos) == ToInt32(DotPair(view.r, pos), PosUnit * 256)

\* C2: in every index array emitted for a finite view, an index that comes before
\* another has a depth no larger than the other's, up to one quantization bucket
\* (1/65535 of the depth range; three sixteenths more are allowed for rounding).
C2_FrontToBack ==
  [][Handles("sort") /\ Emits /\ ~Head(inbox).view.nan =>
       LET q    == Newest.depthIndex
           d(k) == Depth16(Head(inbox).view, buffer.data[q[k] + 1].pos)
           all  == [k \in 1..Len(q) |-> d(k)]
       IN  \A i, j \in 1..Len(q) :
             i < j => d(i) <= d(j) + (SeqMax(all) - SeqMin(all)) \div (Word - 1) + 3]_vars

\* C3: a sort message with the same view as the sort message handled just before
\* it, by a worker that held a scene, emits nothing.
C3_SameViewEmitsNothing ==
  [][Handles("sort") /\ last.msg.kind = "sort" /\ last.held
       /\ last.msg.view = Head(inbox).view
     => outbox' = outbox]_vars

\* C4: the worker has posted a texdata message before it posts any indices message.
C4_TexdataBeforeIndices == posted.indices => posted.texdata

Holders(m, from, to) == IF m.transfer THEN {to} ELSE {from, to}

Draws == Sends /\ Sent.kind = "sort" /\ glVertexCount > 0 /\ ~CameraRow(camera).nan

\* C7: in every frame drawn, once the pixel's alpha is 255 no later instance changes
\* it, and when the first instance drawn is opaque the frame's pixel is that
\* splat's colour.
C7_UnderBlending ==
  [][Draws =>
       LET t     == DrawTrace(texture, indexBuffer, glVertexCount, glVertexCount)
           front == Fetch(texture, indexBuffer[1])
       IN  /\ t[1] = Zero4
           /\ \A k, l \in 1..Len(t) : k < l /\ t[k][4] = 255 => t[l] = t[k]
           /\ front[4] = 255 => pixel' = front]_vars

\* a frame of two opaque splats, red drawn before blue, that left the pixel red
C7_Witness ==
  /\ glVertexCount = 2
  /\ Fetch(texture, indexBuffer[1]) = <<255, 0, 0, 255>>
  /\ Fetch(texture, indexBuffer[2]) = <<0, 0, 255, 255>>
  /\ pixel = <<255, 0, 0, 255>>

\* C8: a sort message handled by a worker that loaded a scene with N = 0 emits an
\* indices message with an empty index array and visibleCount 0.
C8_EmptySceneSortEmits ==
  [][Handles("sort") /\ buffer.set /\ vertexCount = 0 =>
       /\ Emits
       /\ Newest.kind = "indices"
       /\ Newest.depthIndex = <<>>
       /\ Newest.vertexCount = 0]_vars

\* C9: setData with count 0 posts no load message and leaves the camera alone, and
\* a load message with vertexCount 0 leaves the worker's state alone and is
\* answered with no texture.
C9_EmptyLoadRejected ==
  [][/\ Sends /\ Sent.kind = "load" => Sent.vertexCount > 0
     /\ Sends /\ Sent.kind = "load" /\ Sent.vertexCount = 0 => camera' = camera
     /\ Handles("load") /\ Head(inbox).vertexCount = 0 =>
          UNCHANGED <<buffer, vertexCount, lastProj, alphaMin, outbox>>]_vars

\* C10: whatever the handler throws while handling a load, set-alpha or sort message
\* is caught and logged and nothing escapes the handler; the message handled after
\* such a throw has its usual effect: a set-alpha sets the cutoff, a load is answered
\* with the texture, a sort that runs is answered with the indices.
C10_ExceptionCaught ==
  [][\A k \in {"load", "cull", "sort"} : Handles(k) =>
       /\ ~last'.uncaught
       /\ last'.threw => last'.logged /\ outbox' = outbox
       /\ last.threw /\ ~last'.threw =>
            /\ k = "cull" => alphaMin' = Head(inbox).cut /\ lastProj' = <<>>
            /\ k = "load" => Emits /\ Newest.kind = "texdata"
            /\ k = "sort" /\ last'.ran => Emits /\ Newest.kind = "indices"]_vars

\* the message after one whose handling threw was handled and answered
C10_Witness ==
  /\ last.afterThrow
  /\ ~last.threw
  /\ last.nposted = 1

\* C11: a load whose texture generation throws leaves the worker with the scene it
\* had: the packed buffer and the splat count are those of before the load.
C11_FailedLoadKeepsPriorScene ==
  [][Handles("load") /\ last'.threw => UNCHANGED <<buffer, vertexCount>>]_vars

\* the WebGPU attempt of this browser ends with a renderer
GpuSucceeds(env) == env.gpu /\ env.adapter /\ env.device /\ env.gpuCtx /\ env.gpuInit

\* renderer creation is over, with or without a renderer
CreationOver == panel.pc \in {"made", "running", "rejected"}

C13_InitFailureSurfaced ==
  panel.pc = "rejected" => panel.status = "error" /\ ~panel.loop

\* the linear texel index of a coordinate of a texture of the given width
Linear(coord, width) == coord.y * width + coord.x

\* C14: for N >= 1 and i < N the texture is 2048 texels wide and ceil(2N/2048)
\* high; the shaders fetch for splat i the linear texels 2i and 2i+1, which are
\* columns 2(i mod 1024) and 2(i mod 1024)+1 of row floor(i/1024) and lie inside
\* the texture; those texels carry the position and the covariance of splat i;
\* a texel past the last splat is all zero.
C14_TextureAddressing ==
  calc.fn = "generateTexture" /\ calc.done =>
    /\ calc.size.texwidth = 2048
    /\ (calc.size.texheight - 1) * 2048 < 2 * calc.n
    /\ 2 * calc.n <= calc.size.texheight * 2048
    /\ Linear(calc.coord0, 2048) = 2 * calc.i
    /\ Linear(calc.coord1, 2048) = 2 * calc.i + 1
    /\ calc.coord0 = [x |-> 2 * (calc.i % 1024), y |-> calc.i \div 1024]
    /\ calc.coord1 = [x |-> 2 * (calc.i % 1024) + 1, y |-> calc.i \div 1024]
    /\ calc.fetch0.inside /\ calc.fetch1.inside
    /\ \A k \in 0..2 : /\ calc.fetch0.words[k] = TexWord("pos", calc.i, k)
                       /\ calc.fetch1.words[k] = TexWord("cov", calc.i, k)
    /\ calc.past.inside => \A k \in 0..3 : calc.past.words[k] = ZeroWord

\* C14 witness: a splat of the second texture row was fetched, and a texel
\* past the last splat was read inside the texture
C14_Witness ==
  /\ calc.fn = "generateTexture" /\ calc.done
  /\ calc.i >= 1024
  /\ calc.coord0.y = 1
  /\ calc.past.inside

C16_QuatRoundTrip ==
  calc.fn = "quat" /\ calc.done =>
    /\ calc.byte = MathRound(ClampUnit(calc.q) * 128 + 128 * QuatUnit, QuatUnit)
    /\ Abs(QuatUnit * calc.decoded - 128 * calc.q) <= QuatUnit

\* C17: floatToHalf gives a signed zero for a biased exponent below 113, the
\* half exponent e - 112 with the top ten mantissa bits for 113..141, and the
\* signed infinity above; the sign is preserved and the result fits 16 bits.
C17_FloatToHalf ==
  calc.fn = "floatToHalf" /\ calc.done =>
    /\ calc.e < 113 => calc.half = calc.s * 32768
    /\ calc.e \in 113..141 =>
         calc.half = calc.s * 32768 + (calc.e - 112) * 1024 + calc.frac \div 8192
    /\ calc.e > 141 => calc.half = calc.s * 32768 + 31 * 1024
    /\ calc.half \div 32768 = calc.s
    /\ calc.half < 65536

DepthLeq(a, b) == a[1] < b[1] \/ (a[1] = b[1] /\ a[2] <= b[2])

\* the sequence of splat indices is non-decreasing in the depth under the view
NonDecreasing(q, m, scene, view) ==
  \A i, j \in 1..m :
    i < j => DepthLeq(DotPair(view.r, scene[q[i] + 1].pos), DotPair(view.r, scene[q[j] + 1].pos))

\* C19: for the same scene, view and cutoff the GPU sorter's instance count is
\* the worker's visibleCount, the first instanceCount entries of the GPU values
\* are the worker's visible set, and for a finite view both orders are
\* non-decreasing in depth.
C19_GpuSortSameAsCpu ==
  calc.fn = "sort" /\ calc.done =>
    /\ calc.gpu.instanceCount = calc.cpu.visibleCount
    /\ {calc.gpu.values[k] : k \in 1..calc.gpu.instanceCount}
         = {calc.cpu.depthIndex[k] : k \in 1..calc.cpu.visibleCount}
    /\ ~calc.view.nan =>
         /\ NonDecreasing(calc.gpu.values, calc.gpu.instanceCount, calc.scene, calc.view)
         /\ NonDecreasing(calc.cpu.depthIndex, calc.cpu.visibleCount, calc.scene, calc.view)

\* |v . w - 1| < 0.01 for two finite rows
WithinHundredth(v, w) ==
  LET x == Abs(DotRows(v, w) - DepthScale * DepthScale)
  IN  /\ ~v.nan /\ ~w.nan
      /\ x < (DepthScale * DepthScale) \div 50
      /\ 100 * x < DepthScale * DepthScale

\* what C20 says of a sort message with row v, given whether the rule skips it
ThrottleRule(v, skip) ==
  /\ skip <=> ~last'.ran
  /\ ~last'.ran => /\ outbox' = outbox
                   /\ UNCHANGED <<lastProj, alphaMin, buffer, vertexCount>>
  /\ last'.ran => lastProj' = <<v>>

\* C20 as stated: with v' the row of the last sort that ran, a sort message with
\* row v is skipped exactly when v' exists and |v . v' - 1| < 0.01; a skipped
\* message emits nothing and leaves v', cutoff and buffers unchanged; a message
\* that is not skipped stores v as v'.
C20_ThrottleOnLastSorted ==
  [][Handles("sort") /\ buffer.set /\ vertexCount > 0 =>
       ThrottleRule(Head(inbox).view,
                    last.sorted # <<>> /\ WithinHundredth(Head(inbox).view, last.sorted[1]))]_vars

\* C20 amended: v' is the stored row lastProj, which is the row of the last sort
\* that ran unless a set-alpha message came after it, which clears it; a load
\* leaves it; a sort message to a worker holding N >= 1 splats is skipped
\* exactly when v' exists and |v . v' - 1| < 0.01, and then emits nothing and
\* leaves v', cutoff and buffers unchanged; otherwise it stores v as v'.
C20_ThrottleOnStoredRow ==
  [][/\ lastProj' # <<>> => lastProj' = last'.sorted
     /\ Handles("cull") => lastProj' = <<>>
     /\ Handles("load") => lastProj' = lastProj
     /\ Handles("sort") /\ buffer.set /\ vertexCount > 0 =>
          ThrottleRule(Head(inbox).view,
                       lastProj # <<>> /\ WithinHundredth(Head(inbox).view, lastProj[1]))]_vars

\* C20 witness: a sort message was skipped for a row that differs from the
\* stored one
C20_Witness ==
  /\ last.msg.kind = "sort"
  /\ last.held
  /\ ~last.ran
  /\ lastProj # <<>>
  /\ lastProj[1] # last.msg.view

\* s - t * k as a pair, for the pair s and the integer t = th * Word + tl
Remainder(s, th, tl, k) ==
  LET lo == s[2] - tl * k
      hi == s[1] - th * k
  IN  <<hi + (lo \div Word), lo % Word>>

\* the integer d is, modulo 2^32 and within 32 signed bits, the floor of s / k
IsFloorInt32(d, s, k) ==
  /\ d \div Word \in -(Word \div 2)..(Word \div 2 - 1)
  /\ \E m \in -8..8 :
       LET r == Remainder(s, d \div Word + m * Word, d % Word, k)
       IN  r[1] = 0 /\ r[2] < k

\* the integer d is, modulo 2^32 and within 32 signed bits, s / k truncated
\* toward zero
IsTruncInt32(d, s, k) ==
  /\ d \div Word \in -(Word \div 2)..(Word \div 2 - 1)
  /\ \E m \in -8..8 :
       LET r == Remainder(s, d \div Word + m * Word, d % Word, k)
       IN  IF s[1] >= 0 THEN r[1] = 0 /\ r[2] < k
           ELSE (r[1] = 0 /\ r[2] = 0) \/ (r[1] = -1 /\ r[2] > Word - k)

\* C21 as stated: the sort's integer depth is the floor of 4096 times the depth,
\* held in 32 signed bits, for positive and negative depths.
C21_DepthIsFloor ==
  calc.fn = "depth" /\ calc.done /\ ~calc.view.nan =>
    IsFloorInt32(calc.d, DotPair(calc.view.r, calc.pos), PosUnit)

\* C21 amended: the sort's integer depth is 4096 times the depth truncated toward
\* zero (the floor for a depth >= 0, the ceiling for a negative one) and reduced
\* modulo 2^32 into 32 signed bits; it is 0 for a NaN view.
C21_DepthIsTruncated ==
  calc.fn = "depth" /\ calc.done =>
    IF calc.view.nan THEN calc.d = 0
    ELSE IsTruncInt32(calc.d, DotPair(calc.view.r, calc.pos), PosUnit)

\* C21 witness: a negative depth that is not a whole number of 1/4096
C21_Witness ==
  /\ calc.fn = "depth" /\ calc.done /\ ~calc.view.nan
  /\ DotPair(calc.view.r, calc.pos)[1] < 0
  /\ ((DotPair(calc.view.r, calc.pos)[1] % PosUnit) * Word
        + DotPair(calc.view.r, calc.pos)[2]) % PosUnit # 0
  /\ calc.d < 0

\* C22: every bucket lies in 0..65535 (the smallest depth in bucket 0 and, when
\* the depths differ, the largest in bucket 65535, larger depths never in a
\* smaller bucket); the start of every bucket plus its fill stays within the
\* visible count and every write of the scatter falls inside the output, each
\* slot once; when max = min every splat is in bucket 0 and all visible
\* indices are emitted.
C22_BucketsInRange ==
  calc.fn = "sort" /\ calc.done =>
    LET t == calc.trace
        m == t.visibleCount
    IN  /\ \A vi \in 1..m : t.bucket[vi] \in 0..(Word - 1)
        /\ \A vi, vj \in 1..m :
             /\ t.sizeList[vi] <= t.sizeList[vj] => t.bucket[vi] <= t.bucket[vj]
             /\ t.sizeList[vi] = t.minDepth => t.bucket[vi] = 0
             /\ t.sizeList[vi] = t.maxDepth /\ t.maxDepth # t.minDepth
                  => t.bucket[vi] = Word - 1
        /\ \A b \in DOMAIN t.starts0 :
             t.starts0[b] + Cardinality({vi \in 1..m : t.bucket[vi] = b}) <= m
        /\ \A vi \in 1..m : t.ats[vi] \in 0..(m - 1)
        /\ \A vi, vj \in 1..m : vi # vj => t.ats[vi] # t.ats[vj]
        /\ m > 0 /\ t.maxDepth = t.minDepth =>
             /\ \A vi \in 1..m : t.bucket[vi] = 0
             /\ Len(t.depthIndex) = m
             /\ {t.depthIndex[k] : k \in 1..m}
                  = VisibleSet(calc.scene, Len(calc.scene), calc.cut)

\* C22 witness: three visible splats all at one depth under a finite view
C22_Witness ==
  /\ calc.fn = "sort" /\ calc.done /\ ~calc.view.nan
  /\ calc.trace.visibleCount = 3
  /\ calc.trace.maxDepth = calc.trace.minDepth

\* C24: at every draw the instance count is the length of the bound index
\* buffer and every index in it is smaller than the splat count of the scene
\* whose texture is bound.
C24_IndicesWithinBoundTexture ==
  [][Sends /\ Sent.kind = "sort" =>
       /\ glVertexCount = Len(indexBuffer)
       /\ \A k \in 1..Len(indexBuffer) : indexBuffer[k] < Len(texture.texdata)]_vars

\* C25: the first sort message after a load message for a scene with N >= 1
\* runs a sort and, unless the sort throws, emits the indices of the visible
\* splats of the newly loaded scene, whatever view was sorted before the load.
C25_FirstSortAfterLoadRuns ==
  [][Handles("sort") /\ last.msg.kind = "load" /\ buffer.set /\ vertexCount > 0 =>
       /\ last'.ran
       /\ last'.threw \/ /\ Emits
                         /\ Newest.kind = "indices"
                         /\ IsPermutationOf(Newest.depthIndex,
                                            VisibleSet(buffer.data, vertexCount, alphaMin))]_vars

\* C30: after any sequence of mouse drags, wheel turns and setData calls the
\* camera radius is within [0.1, 500] and its target is a point, so that the
\* eye never coincides with the target and lookAt divides by a non-zero length.
C30_CameraWithinBounds == ~camera.radiusZero /\ ~camera.targetNaN

\* ---------------------------------------------------------------------------
\* One renderer from setData to dispose: animation frames, the worker's ports,
\* and the GPUSorter's readback of the visible count
\* ---------------------------------------------------------------------------

modelVars == <<workerVars, inbox, outbox, last, posted, renderVars, calls, panel, calc>>

\* how many animation frames a session requests
MaxFrames == 4

\* q without its i-th element
DropAt(q, i) == SubSeq(q, 1, i - 1) \o SubSeq(q, i + 1, Len(q))

\* new GPUSorter(device, count, texture): readbackPending = false, the buffers
\* created unmapped. chains holds one entry per promise chain of
\* readbackVisibleCount that has not settled: "workDone" while
\* onSubmittedWorkDone() is pending, "map" while mapAsync is pending, "mapped"
\* when mapAsync has resolved and its handler has not run yet
NewSorter == [on |-> TRUE, readbackPending |-> FALSE, readbackBuffer |-> "unmapped",
              chains |-> <<>>]

\* this.gpuSorter = null
NullSorter == [NewSorter EXCEPT !.on = FALSE]

\* readbackVisibleCount without its first line
NoReadbackGuard(s) == FALSE

\* if (this.readbackPending) return;
ReadbackGuard(s) == s.readbackPending

\* readbackVisibleCount(encoder, callback), and the submit that ends drawFrame
ReadbackVisibleCount(s) ==
  IF ReadbackGuard(s) THEN s
  ELSE [s EXCEPT !.readbackPending = TRUE, !.chains = Append(@, "workDone")]

\* GPUSorter.dispose(): readbackBuffer.destroy(), which aborts a pending mapAsync
\* (its promise then rejects); the renderer drops its reference
SorterDispose(s) == [s EXCEPT !.on = FALSE, !.readbackBuffer = "destroyed"]

\* a renderer after its constructor and setData(msg): the load message is on its
\* way to the worker, no frame has been requested
NewRenderer(backend) ==
  [on |-> TRUE, backend |-> backend, started |-> FALSE, animationId |-> 0,
   requested |-> 0, pendingFrames |-> {}, worker |-> TRUE,
   toWorker |-> <<"load">>, fromWorker |-> <<>>, disposed |-> FALSE,
   drawn |-> 0, posts |-> 0, applied |-> 0, reports |-> 0]

\* drawFrame(): the WebGL renderer posts the view to its worker (this.worker?.)
\* and draws; the WebGPU renderer sorts and reads back on its GPUSorter, if it
\* has one, and draws
DrawFrameOf(r) ==
  IF r.backend = "webgl" /\ r.worker
  THEN [r EXCEPT !.toWorker = Append(@, "sort"), !.posts = @ + 1, !.drawn = @ + 1]
  ELSE [r EXCEPT !.drawn = @ + 1]

\* const render = () => { this.animationId = requestAnimationFrame(render);
\*                        this.drawFrame(); }
Render(r) ==
  DrawFrameOf([r EXCEPT !.requested = @ + 1, !.animationId = r.requested + 1,
                        !.pendingFrames = @ \cup {r.requested + 1}])

RenderSorter(r, s) ==
  IF r.backend = "webgpu" /\ s.on THEN ReadbackVisibleCount(s) ELSE s

\* stopLoop() without the cancel
StopLoopKeeps(r) == r

\* stopLoop(): cancelAnimationFrame(this.animationId)
StopLoop(r) == [r EXCEPT !.pendingFrames = @ \ {r.animationId}]

\* startLoop(): render()
StartLoop ==
  /\ rdr.on /\ ~rdr.started /\ ~rdr.disposed
  /\ rdr.requested < MaxFrames
  /\ rdr' = [Render(rdr) EXCEPT !.started = TRUE]
  /\ sorter' = RenderSorter(rdr, sorter)
  /\ UNCHANGED <<modelVars, life>>

\* the browser runs a requested animation frame callback
AnimationFrame(id) ==
  /\ rdr.on /\ id \in rdr.pendingFrames
  /\ rdr.requested < MaxFrames
  /\ rdr' = Render([rdr EXCEPT !.pendingFrames = @ \ {id}])
  /\ sorter' = RenderSorter(rdr, sorter)
  /\ UNCHANGED <<modelVars, life>>

\* the worker handles its next message: a load is answered with the texture, a
\* sort with the indices unless the throttle drops it
WorkerTurn(emits) ==
  /\ rdr.on /\ rdr.worker /\ rdr.toWorker # <<>>
  /\ rdr' = [rdr EXCEPT
       !.toWorker = Tail(@),
       !.fromWorker = IF Head(rdr.toWorker) = "load" THEN Append(@, "texdata")
                      ELSE IF emits THEN Append(@, "indices") ELSE @]
  /\ UNCHANGED <<modelVars, sorter, life>>

\* this.worker.onmessage. WebGL: upload the texture, or upload the indices and
\* report the stats. WebGPU: upload the texture and make a new GPUSorter;
\* indices are ignored
WorkerOutput ==
  /\ rdr.on /\ rdr.fromWorker # <<>>
  /\ LET m == Head(rdr.fromWorker) IN
       /\ rdr' = [rdr EXCEPT
            !.fromWorker = Tail(@),
            !.applied = IF rdr.backend = "webgl" \/ m = "texdata" THEN @ + 1 ELSE @,
            !.reports = IF rdr.backend = "webgl" /\ m = "indices" THEN @ + 1 ELSE @]
       /\ sorter' = IF rdr.backend = "webgpu" /\ m = "texdata" THEN NewSorter ELSE sorter
  /\ UNCHANGED <<modelVars, life>>

\* onSubmittedWorkDone() resolves: readbackBuffer.mapAsync(READ), which rejects at
\* once unless the buffer is unmapped (then the inner catch clears the flag)
WorkDoneResolves(i) ==
  /\ i \in 1..Len(sorter.chains) /\ sorter.chains[i] = "workDone"
  /\ sorter' = IF sorter.readbackBuffer = "unmapped"
               THEN [sorter EXCEPT !.readbackBuffer = "pending", !.chains[i] = "map"]
               ELSE [sorter EXCEPT !.readbackPending = FALSE,
                                   !.chains = DropAt(@, i)]
  /\ UNCHANGED <<modelVars, rdr, life>>

\* onSubmittedWorkDone() rejects: the outer catch
WorkDoneRejects(i) ==
  /\ i \in 1..Len(sorter.chains) /\ sorter.chains[i] = "workDone"
  /\ sorter' = [sorter EXCEPT !.readbackPending = FALSE, !.chains = DropAt(@, i)]
  /\ UNCHANGED <<modelVars, rdr, life>>

\* mapAsync resolves: the buffer is mapped
MapResolves(i) ==
  /\ i \in 1..Len(sorter.chains) /\ sorter.chains[i] = "map"
  /\ sorter.readbackBuffer = "pending"
  /\ sorter' = [sorter EXCEPT !.readbackBuffer = "mapped", !.chains[i] = "mapped"]
  /\ UNCHANGED <<modelVars, rdr, life>>

\* mapAsync rejects (the device is lost, or the buffer was destroyed while the
\* map was pending): the inner catch
MapRejects(i) ==
  /\ i \in 1..Len(sorter.chains) /\ sorter.chains[i] = "map"
  /\ sorter' = [sorter EXCEPT
       !.readbackBuffer = IF @ = "pending" THEN "unmapped" ELSE @,
       !.readbackPending = FALSE,
       !.chains = DropAt(@, i)]
  /\ UNCHANGED <<modelVars, rdr, life>>

\* the handler of mapAsync: getMappedRange (which throws into the inner catch when
\* the buffer is no longer mapped), unmap, readbackPending = false, callback(count),
\* which is this.onStatsUpdate?.(...)
Mapped(i) ==
  /\ i \in 1..Len(sorter.chains) /\ sorter.chains[i] = "mapped"
  /\ sorter' = [sorter EXCEPT
       !.readbackBuffer = IF @ = "mapped" THEN "unmapped" ELSE @,
       !.readbackPending = FALSE,
       !.chains = DropAt(@, i)]
  /\ rdr' = IF sorter.readbackBuffer = "mapped"
            THEN [rdr EXCEPT !.reports = @ + 1] ELSE rdr
  /\ UNCHANGED <<modelVars, life>>

\* dispose(): stopLoop(); detachCamera(); worker.terminate(), which discards what
\* the worker has not handled and empties the port its output is queued on;
\* worker = null; WebGPU: gpuSorter.dispose(), gpuSorter = null
Dispose ==
  /\ rdr.on /\ ~rdr.disposed
  /\ rdr' = [StopLoop(rdr) EXCEPT !.worker = FALSE, !.toWorker = <<>>,
                                  !.fromWorker = <<>>, !.disposed = TRUE]
  /\ sorter' = IF rdr.backend = "webgpu" THEN SorterDispose(sorter) ELSE sorter
  /\ UNCHANGED <<modelVars, life>>

LoopSpecInit ==
  /\ WorkerInit
  /\ RenderInit
  /\ inbox = <<>>
  /\ outbox = <<>>
  /\ panel = PanelWebGL
  /\ calc = NoCalc
  /\ life = NoLife
  /\ sorter = NullSorter
  /\ \E backend \in {"webgl", "webgpu"} : rdr = NewRenderer(backend)

LoopSpecNext ==
  \/ StartLoop
  \/ \E id \in 1..MaxFrames : AnimationFrame(id)
  \/ \E emits \in BOOLEAN : WorkerTurn(emits)
  \/ WorkerOutput
  \/ \E i \in 1..MaxFrames : WorkDoneResolves(i)
  \/ \E i \in 1..MaxFrames : WorkDoneRejects(i)
  \/ \E i \in 1..MaxFrames : MapResolves(i)
  \/ \E i \in 1..MaxFrames : MapRejects(i)
  \/ \E i \in 1..MaxFrames : Mapped(i)
  \/ Dispose

LoopSpec == LoopSpecInit /\ [][LoopSpecNext]_vars

\* C23: at most one readback of the visible count is in flight; a copy into the
\* readback buffer is encoded and submitted only while that buffer is unmapped
\* with no mapAsync pending; and readbackPending is false again as soon as the
\* readback has resolved or rejected, so that a later frame reads back again.
C23_ReadbackGuard ==
  [][/\ Len(sorter'.chains) <= 1
     /\ Len(sorter'.chains) > Len(sorter.chains)
          => sorter.readbackBuffer = "unmapped" /\ sorter.chains = <<>>
     /\ sorter'.readbackPending <=> sorter'.chains # <<>>
     /\ sorter'.readbackBuffer \in {"pending", "mapped"} => sorter'.readbackPending]_vars

\* C23 witness: a readback has reported its count and the next one is in flight
C23_Witness ==
  /\ rdr.on /\ rdr.backend = "webgpu" /\ rdr.reports > 0
  /\ sorter.readbackPending /\ sorter.readbackBuffer = "pending"

\* C28: once dispose() has returned the renderer draws no frame, posts nothing to
\* its worker, applies no worker output, reports no stats, and no animation
\* frame it requested is still pending.
C28_NothingAfterDispose ==
  [][rdr'.disposed =>
       /\ rdr'.pendingFrames = {}
       /\ rdr.disposed =>
            /\ rdr'.drawn = rdr.drawn /\ rdr'.posts = rdr.posts
            /\ rdr'.applied = rdr.applied /\ rdr'.reports = rdr.reports]_vars

\* C28 witness: a WebGPU renderer that drew frames and reported stats, disposed
\* while a readback of its sorter is still in flight
C28_Witness ==
  /\ rdr.on /\ rdr.disposed /\ rdr.backend = "webgpu"
  /\ rdr.drawn >= 2 /\ rdr.reports >= 1
  /\ sorter.chains # <<>> /\ sorter.readbackBuffer = "destroyed"

\* ---------------------------------------------------------------------------
\* The panel's [splatData] and [alphaMin] effects over a session: every scene
\* starts an asynchronous renderer creation, which completes at any later time
\* ---------------------------------------------------------------------------

\* how many scenes a session loads
MaxEffects == 3

\* the cutoff a new renderer culls with: alphaMin = 1 in the worker (WebGL) and in
\* SplatRendererGPU
InitialAlphaMin == 1

\* one run of the [splatData] effect and the renderer its init() asks for:
\* disposed is the effect's local flag; stage is where init() is ("await" in
\* createRenderer, "made" once createRenderer has resolved, "done", "rejected",
\* or "skipped" when init() returned before creating anything)
NewEffect(stage) ==
  [disposed |-> FALSE, stage |-> stage, state |-> "none", loop |-> FALSE,
   started |-> FALSE, cutoff |-> 0, scene |-> 0]

\* the panel as mounted: no splatData, the slider at 1, no renderer
NewPanel ==
  [on |-> TRUE, mounted |-> TRUE, splatData |-> 0, alphaMin |-> 1,
   rendererRef |-> 0, initingRef |-> FALSE, effects |-> <<>>]

\* renderer.dispose(), as far as the panel sees it
Disposed(e) == [e EXCEPT !.state = "disposed", !.loop = FALSE]

\* the cleanup of the [splatData] effect: disposed = true;
\* rendererRef.current?.dispose(); rendererRef.current = undefined;
\* initingRef.current = false. The first effect ran with splatData undefined and
\* returned no cleanup.
Cleanup(l) ==
  IF l.effects = <<>> THEN l
  ELSE [l EXCEPT
          !.effects = [k \in 1..Len(l.effects) |->
                         LET e == IF k = Len(l.effects)
                                  THEN [l.effects[k] EXCEPT !.disposed = TRUE]
                                  ELSE l.effects[k]
                         IN  IF k = l.rendererRef THEN Disposed(e) ELSE e],
          !.rendererRef = 0,
          !.initingRef = FALSE]

\* the [splatData] effect up to the await in init(): with a renderer it hands the
\* scene to it; while another init() is creating one it returns; else it sets
\* initingRef and calls createRenderer
RunEffect(l, d) ==
  IF l.rendererRef # 0
  THEN [l EXCEPT !.effects = Append([@ EXCEPT ![l.rendererRef].scene = d],
                                    NewEffect("skipped")),
                 !.splatData = d]
  ELSE IF l.initingRef
  THEN [l EXCEPT !.effects = Append(@, NewEffect("skipped")), !.splatData = d]
  ELSE [l EXCEPT !.effects = Append(@, NewEffect("await")), !.splatData = d,
                 !.initingRef = TRUE]

\* handleFile or a topic message: setSplatData with a new object, upon which React
\* runs the cleanup of the previous effect and then the effect
LoadScene ==
  /\ life.on /\ life.mounted
  /\ Len(life.effects) < MaxEffects
  /\ life' = RunEffect(Cleanup(life), life.splatData + 1)
  /\ UNCHANGED <<modelVars, sorter, rdr>>

\* the panel is closed: the cleanup runs
Unmount ==
  /\ life.on /\ life.mounted
  /\ life' = [Cleanup(life) EXCEPT !.mounted = FALSE]
  /\ UNCHANGED <<modelVars, sorter, rdr>>

\* the slider: setAlphaMin(a), upon which the [alphaMin] effect runs
\* rendererRef.current?.setCullParams({ alphaMin })
SetAlphaMin(a) ==
  /\ life.on /\ life.mounted
  /\ a # life.alphaMin
  /\ life' = [life EXCEPT
       !.alphaMin = a,
       !.effects = IF life.rendererRef = 0 THEN @
                   ELSE [@ EXCEPT ![life.rendererRef].cutoff = a]]
  /\ UNCHANGED <<modelVars, sorter, rdr>>

\* createRenderer resolves with a renderer, which starts with its own cutoff
CreateResolves(k) ==
  /\ life.on /\ k \in 1..Len(life.effects)
  /\ life.effects[k].stage = "await"
  /\ life' = [life EXCEPT !.effects[k] =
       [@ EXCEPT !.stage = "made", !.state = "made", !.cutoff = InitialAlphaMin]]
  /\ UNCHANGED <<modelVars, sorter, rdr>>

\* createRenderer rejects (the WebGL constructor throws): init() ends there
CreateRejects(k) ==
  /\ life.on /\ k \in 1..Len(life.effects)
  /\ life.effects[k].stage = "await"
  /\ life' = [life EXCEPT !.effects[k].stage = "rejected"]
  /\ UNCHANGED <<modelVars, sorter, rdr>>

\* init() never looks at its disposed flag
NeverDisposed(e) == FALSE

\* if (disposed)
IsDisposed(e) == e.disposed

\* init() after the await: a renderer of a cleaned-up effect is disposed; else
\* rendererRef.current = renderer; setData(splatData); startLoop(); and in both
\* cases initingRef.current = false
Resume(k) ==
  /\ life.on /\ k \in 1..Len(life.effects)
  /\ life.effects[k].stage = "made"
  /\ life' =
       IF IsDisposed(life.effects[k])
       THEN [life EXCEPT !.effects[k] = [Disposed(@) EXCEPT !.stage = "done"],
                         !.initingRef = FALSE]
       ELSE [life EXCEPT !.effects[k] = [@ EXCEPT !.stage = "done", !.state = "current",
                                                  !.scene = k, !.loop = TRUE,
                                                  !.started = TRUE],
                         !.rendererRef = k,
                         !.initingRef = FALSE]
  /\ UNCHANGED <<modelVars, sorter, rdr>>

LifeSpecInit ==
  /\ WorkerInit
  /\ RenderInit
  /\ inbox = <<>>
  /\ outbox = <<>>
  /\ panel = PanelWebGL
  /\ calc = NoCalc
  /\ sorter = NoSorter
  /\ rdr = NoRdr
  /\ life = NewPanel

LifeSpecNext ==
  \/ LoadScene
  \/ Unmount
  \/ \E a \in Alphas : SetAlphaMin(a)
  \/ \E k \in 1..MaxEffects : CreateResolves(k)
  \/ \E k \in 1..MaxEffects : CreateRejects(k)
  \/ \E k \in 1..MaxEffects : Resume(k)

LifeSpec == LifeSpecInit /\ [][LifeSpecNext]_vars

\* the continuation of an await runs once the promise has resolved
LifeFairSpec == LifeSpec /\ \A k \in 1..MaxEffects : WF_vars(Resume(k))

\* C26: whenever the panel has a renderer that has been given its scene, the
\* cutoff that renderer was told to cull with is the value the slider shows.
C26_CutoffFollowsSlider ==
  life.on /\ life.rendererRef # 0 /\ life.effects[life.rendererRef].scene # 0
    => life.effects[life.rendererRef].cutoff = life.alphaMin

\* the renderers whose creation has completed
Made == {k \in 1..Len(life.effects) : life.effects[k].state # "none"}

\* C27: a renderer whose loop runs is the one the panel references (so there is
\* at most one); a renderer whose creation completes after its effect was cleaned
\* up is disposed in init()'s continuation and is never started; and every
\* renderer made is eventually the panel's renderer or disposed.
C27_RendererLifecycle ==
  /\ [](\A k \in Made : /\ life.effects[k].loop => life.rendererRef = k
                        /\ life.effects[k].state = "disposed" => ~life.effects[k].loop)
  /\ [][\A k \in Made :
          /\ life.effects[k].stage = "made" /\ life.effects[k].disposed
             /\ life'.effects[k].stage = "done"
               => life'.effects[k].state = "disposed" /\ ~life'.effects[k].started
          /\ life.effects[k].state = "disposed"
               => life'.effects[k].state = "disposed"]_vars
  /\ \A k \in 1..MaxEffects :
       (k \in Made) ~> (k \in Made /\ (life.rendererRef = k
                                        \/ life.effects[k].state = "disposed"))

\* C27 witness: two creations were in flight at once; the first completed after its
\* effect was cleaned up and was disposed unstarted, the second is the panel's
\* renderer
C27_Witness ==
  /\ life.on /\ Len(life.effects) >= 2
  /\ life.effects[1].state = "disposed" /\ ~life.effects[1].started
  /\ life.rendererRef = 2 /\ life.effects[2].loop

\* ---------------------------------------------------------------------------
\* A WebGL renderer that was given a scene with N >= 1 and whose loop keeps
\* running, while the slider and the mouse are moved a bounded number of times
\* ---------------------------------------------------------------------------

\* an animation frame of the running loop
LoopFrame == Frame /\ UNCHANGED calls

\* how many times the slider or the mouse is moved while the loop runs
MaxMoves == 2

\* scenes with N >= 1: a single splat (which autoFitCamera gives a NaN view), and
\* a translucent splat in front of an opaque one
LoopScenes ==
  { <<Splat(0, 0, 0, 255, "r")>>,
    <<Splat(0, 1, -1, 100, "g"), Splat(0, 0, 2, 255, "b")>> }

\* after the constructor, setData(scene) and startLoop()
FairSpecInit ==
  /\ WorkerInit
  /\ calls = 0
  /\ texture = [texheight |-> 0, texdata |-> <<>>]
  /\ indexBuffer = <<>>
  /\ glVertexCount = 0
  /\ pixel = Zero4
  /\ panel = PanelWebGL
  /\ calc = NoCalc
  /\ Elsewhere
  /\ outbox = <<>>
  /\ \E scene \in LoopScenes :
       /\ inbox = <<LoadMsg(scene)>>
       /\ camera = AutoFit([dir |-> InitDir, radiusZero |-> FALSE, targetNaN |-> FALSE],
                           scene)

FairSpecNext ==
  \/ \E a \in Alphas : calls < MaxMoves /\ SetCullParams(a)
  \/ \E d \in Dirs : calls < MaxMoves /\ MouseDrag(d)
  \/ LoopFrame
  \/ OnWorkerMessage
  \/ OnMessage

\* the worker takes the next message off its queue; OnMessage is the only action
\* that does
Handled == inbox # <<>> /\ Len(outbox) < MaxQueue /\ inbox' = Tail(inbox)

\* requestAnimationFrame keeps calling render, and the two event loops deliver
\* every posted message
FairSpec ==
  /\ FairSpecInit /\ [][FairSpecNext]_vars
  /\ WF_vars(LoopFrame) /\ WF_inbox(Handled) /\ WF_vars(OnWorkerMessage)

\* the cutoff of the latest setCullParams call: the one still on its way to the
\* worker, else the one the worker has stored
Wanted ==
  LET culls == {k \in 1..Len(inbox) : inbox[k].kind = "cull"}
  IN  IF culls = {} THEN alphaMin
      ELSE inbox[CHOOSE k \in culls : \A j \in culls : j <= k].cut

\* the render context has applied indices computed for the worker's scene with
\* cutoff a, and the visible count it reported is the number of splats with
\* opacity byte >= a
AppliedFor(a) ==
  /\ glVertexCount = Cardinality(VisibleSet(buffer.data, vertexCount, a))
  /\ IsPermutationOf(indexBuffer, VisibleSet(buffer.data, vertexCount, a))

\* the worker has stored cutoff a from a set-alpha message while it holds a scene
\* with N >= 1, and no later setCullParams call is on its way
CutoffSet(a) ==
  /\ last.msg.kind = "cull" /\ last.msg.cut = a
  /\ buffer.set /\ vertexCount > 0
  /\ Wanted = a

\* C29: while the loop keeps running, a cutoff a set by setCullParams on a scene
\* with N >= 1 and not superseded by a later call is eventually the cutoff of the
\* indices the render context has applied and of the stats it reports; checked
\* on the runs in which the worker eventually stops throwing.
C29_CutoffEventuallyApplied ==
  <>[](~last.threw) =>
    \A a \in Alphas : CutoffSet(a) ~> (Wanted # a \/ AppliedFor(a))

====
